---- MODULE Spec2Model ----
(***************************************************************************)
(* HR Copilot (Streamlit multi-page application).                          *)
(*                                                                         *)
(* The model covers the generation pipeline that the nine module pages     *)
(* share: the sidebar model selector, the form check of a "Generate"       *)
(* button handler, generate_content / generate_ai_content, the write of    *)
(* the result slot in st.session_state.generated_content, and the display  *)
(* section with its markdown normalisation (clean_text,                    *)
(* clean_markdown_text).                                                   *)
(*                                                                         *)
(* Python strings are sequences of one-character strings.  The two box     *)
(* drawing characters of clean_markdown_text are written "U+2500" and      *)
(* "U+2550".                                                               *)
(***************************************************************************)
EXTENDS Integers, Sequences, FiniteSets, TLC

VARIABLES
    GEMINI_API_KEY,   \* os.getenv('GEMINI_API_KEY'); "" when not configured
    OPENAI_API_KEY,   \* os.getenv('OPENAI_API_KEY'); "" when not configured
    openai_lib,       \* state of the openai package in the deployment
    genai_api_key,    \* process-global key set by genai.configure
    session_state,    \* st.session_state of the browser session
    page,             \* page whose script ran last
    run,              \* what the last script run did and showed
    generations,      \* number of "Generate" clicks so far
    previous_content, \* generated_content as the last script run found it
    bias_source, \* the job description the stored bias analysis was computed from
    form_values, \* form values kept in st.session_state
    previous_choice, \* model_choice as the last script run found it
    text,             \* normalisation: the raw string
    normalizer,       \* normalisation: the function under study
    once,             \* normalisation: result of one application
    twice,            \* normalisation: result of two applications
    npc,              \* normalisation: position
    sessions          \* concurrent browser sessions of the process

vars == <<GEMINI_API_KEY, OPENAI_API_KEY, openai_lib, genai_api_key,
          session_state, page, run, generations, previous_content, bias_source,
          form_values, previous_choice,
          text, normalizer, once, twice, npc, sessions>>

envVars == <<GEMINI_API_KEY, OPENAI_API_KEY, openai_lib>>
sessionVars == <<genai_api_key, session_state, page, run, generations,
                 previous_content, bias_source, form_values,
                 previous_choice>>
normVars == <<text, normalizer, once, twice, npc>>
concVars == <<sessions>>

(***************************************************************************)
(* Bounds                                                                  *)
(***************************************************************************)
MaxLen == 5           \* longest raw string given to the normalisers
MaxGenerations == 1   \* "Generate" clicks explored in one session
MaxStoreGenerations == 2   \* the same, in the study of the result slots
MaxSessions == 2      \* browser sessions that generate concurrently

(***************************************************************************)
(* Python string operations                                                *)
(***************************************************************************)
NL == "\n"
Whitespace == {" ", NL}

\* str.replace(old, new): leftmost, non-overlapping occurrences
RECURSIVE Replace(_, _, _)
Replace(s, old, new) ==
    IF Len(s) < Len(old) THEN s
    ELSE IF SubSeq(s, 1, Len(old)) = old
         THEN new \o Replace(SubSeq(s, Len(old) + 1, Len(s)), old, new)
         ELSE <<Head(s)>> \o Replace(Tail(s), old, new)

\* `sub in s`
RECURSIVE Contains(_, _)
Contains(s, sub) ==
    IF Len(s) < Len(sub) THEN FALSE
    ELSE IF SubSeq(s, 1, Len(sub)) = sub THEN TRUE
    ELSE Contains(Tail(s), sub)

RECURSIVE LStrip(_)
LStrip(s) ==
    IF s # <<>> /\ Head(s) \in Whitespace THEN LStrip(Tail(s)) ELSE s

RECURSIVE RStrip(_)
RStrip(s) ==
    IF s # <<>> /\ s[Len(s)] \in Whitespace
    THEN RStrip(SubSeq(s, 1, Len(s) - 1)) ELSE s

\* str.strip()
Strip(s) == RStrip(LStrip(s))

\* str.split(): the words between runs of whitespace; no word for a blank
\* string
RECURSIVE Words(_, _)
Words(s, cur) ==
    IF s = <<>> THEN IF cur = <<>> THEN <<>> ELSE <<cur>>
    ELSE IF Head(s) \in Whitespace
         THEN (IF cur = <<>> THEN <<>> ELSE <<cur>>) \o Words(Tail(s), <<>>)
         ELSE Words(Tail(s), Append(cur, Head(s)))

\* s.split('\n'): a sequence of lines, never empty
RECURSIVE SplitLines(_, _)
SplitLines(s, cur) ==
    IF s = <<>> THEN <<cur>>
    ELSE IF Head(s) = NL THEN <<cur>> \o SplitLines(Tail(s), <<>>)
    ELSE SplitLines(Tail(s), Append(cur, Head(s)))

\* '\n'.join(lines)
RECURSIVE JoinLines(_)
JoinLines(lines) ==
    IF Len(lines) = 0 THEN <<>>
    ELSE IF Len(lines) = 1 THEN lines[1]
    ELSE lines[1] \o <<NL>> \o JoinLines(Tail(lines))

\* ch * n
RECURSIVE Repeat(_, _)
Repeat(ch, n) == IF n = 0 THEN <<>> ELSE <<ch>> \o Repeat(ch, n - 1)

\* Python truth value of a str
Truthy(s) == s # <<>>

(***************************************************************************)
(* Markdown normalisation                                                  *)
(***************************************************************************)
RuleWidth == 50

\* text.replace('**','').replace('*','').replace('###','').replace('##','').replace('#','')
RemoveMarkdown(s) ==
    Replace(Replace(Replace(Replace(Replace(s,
        <<"*", "*">>, <<>>), <<"*">>, <<>>),
        <<"#", "#", "#">>, <<>>), <<"#", "#">>, <<>>), <<"#">>, <<>>)

clean_text_strip_first(s) ==
    IF ~Truthy(s) THEN <<>> ELSE RemoveMarkdown(Strip(s))

\* pages 04 to 09
clean_text(s) ==
    IF ~Truthy(s) THEN <<>> ELSE Strip(RemoveMarkdown(s))

\* while '\n\n\n' in cleaned: cleaned = cleaned.replace('\n\n\n', '\n\n')
RECURSIVE CollapseBlankLines(_)
CollapseBlankLines(s) ==
    IF Contains(s, <<NL, NL, NL>>)
    THEN CollapseBlankLines(Replace(s, <<NL, NL, NL>>, <<NL, NL>>))
    ELSE s

\* [line.strip() for line in cleaned.split('\n')] joined by '\n'
StripLines(s) ==
    LET lines == SplitLines(s, <<>>)
    IN  JoinLines([i \in 1..Len(lines) |-> Strip(lines[i])])

clean_markdown_text_no_collapse(s) ==
    IF ~Truthy(s) THEN <<>>
    ELSE LET a == RemoveMarkdown(s)
             b == Replace(a, <<"-", "-", "-">>, Repeat("U+2500", RuleWidth))
             c == Replace(b, <<"=", "=", "=">>, Repeat("U+2550", RuleWidth))
         IN  Strip(StripLines(c))

\* page 03
clean_markdown_text(s) ==
    IF ~Truthy(s) THEN <<>>
    ELSE LET a == RemoveMarkdown(s)
             b == Replace(a, <<"-", "-", "-">>, Repeat("U+2500", RuleWidth))
             c == Replace(b, <<"=", "=", "=">>, Repeat("U+2550", RuleWidth))
         IN  Strip(CollapseBlankLines(StripLines(c)))

\* the lines with 'Dear'
DearLines(lines) == {i \in 1..Len(lines) : Contains(lines[i], <<"Dear">>)}

\* the lines with 'Dear' and the first name
SalutationLines(lines, names) ==
    {i \in DearLines(lines) : names # <<>> /\ Contains(lines[i], names[1])}

\* the index the loop leaves in start_index, counted from 1
StartIndex(hit) == IF hit = {} THEN 1 ELSE CHOOSE i \in hit : \A j \in hit : i <= j

\* cleaned_content.startswith("Here's")
HasPreamble(cleaned) == cleaned # <<>> /\ Head(cleaned) = "Here's"

LetterBody(cleaned, lines, names) ==
    IF HasPreamble(cleaned)
    THEN JoinLines(SubSeq(lines, StartIndex(SalutationLines(lines, names)), Len(lines)))
    ELSE cleaned

LetterOf(cleaned, lines, names) ==
    IF HasPreamble(cleaned) /\ DearLines(lines) # {} /\ names = <<>>
    THEN [raised |-> TRUE, text |-> <<>>]
    ELSE [raised |-> FALSE,
          text |-> <<"letterhead", NL>> \o LetterBody(cleaned, lines, names)
                   \o <<NL, "closing and footer">>]

LetterFrom(cleaned, names) == LetterOf(cleaned, SplitLines(cleaned, <<>>), names)

\* format_letter_with_letterhead(content, document_type, candidate_name, ...):
\* when the cleaned text starts with "Here's", the text before the first
\* line with 'Dear' and the first name is dropped; `candidate_name.split()[0]`
\* is evaluated for a line with 'Dear' and raises IndexError for a name
\* without a word
format_letter_with_letterhead(content, candidate_name) ==
    LetterFrom(clean_markdown_text(content), Words(candidate_name, <<>>))

Normalizers == {"clean_text", "clean_markdown_text"}

Normalize(fn, s) ==
    IF fn = "clean_text" THEN clean_text(s) ELSE clean_markdown_text(s)


(***************************************************************************)
(* Deployment, session and pages                                           *)
(***************************************************************************)
Gemini == "Gemini (Google)"
OpenAI == "GPT-4.1 (OpenAI)"
Unset == "<not in session_state>"
NoKey == ""

GeminiKeys == {NoKey, "gemini-key"}
OpenAIKeys == {NoKey, "openai-key"}

\* "installed": `from openai import OpenAI` works; "legacy": `import openai`
\* works but the package has no OpenAI class; "absent": no such package
LibStates == {"installed", "legacy", "absent"}

MainPage == "main"    \* hr_copilot_main.py: navigation only
HomePage == "00"
ModulePages == {"01", "02", "03", "04", "05", "06", "07", "08", "09"}
Pages == {MainPage, HomePage} \cup ModulePages
SelectorPages == {"01", "02", "03", "04", "05", "06"}

\* one "Generate" tab per module, and the custom tab of module 01
Tabs == {
    [page |-> "01", tag |-> "idp",                 check |-> "all"],
    [page |-> "01", tag |-> "custom",              check |-> "strip"],
    [page |-> "02", tag |-> "development_plan",    check |-> "all"],
    [page |-> "03", tag |-> "job_description",     check |-> "all"],
    [page |-> "04", tag |-> "development_plan",    check |-> "all"],
    [page |-> "05", tag |-> "disciplinary_letter", check |-> "all"],
    [page |-> "06", tag |-> "chatbot_script",      check |-> "all"],
    [page |-> "07", tag |-> "training_design",     check |-> "all"],
    [page |-> "08", tag |-> "pay_revision_letter", check |-> "all"],
    [page |-> "09", tag |-> "bsc_framework",       check |-> "all"] }

\* the "Check for Bias" button of the job-description tab of module 03
BiasTab == [page |-> "03", tag |-> "bias_analysis", check |-> "all"]

\* the incident-report tab of module 05, which takes uploaded photos
IncidentTab == [page |-> "05", tag |-> "incident_report", check |-> "all"]

\* the offer-letter tab of module 03, which stores the formatted letter
OfferTab == [page |-> "03", tag |-> "offer_document", check |-> "all"]

\* tabs with inputs other than text fields, or with a handler of their own
ExtraTabs == {BiasTab, IncidentTab, OfferTab}

Tags == {t.tag : t \in Tabs \cup ExtraTabs}
TagsOf(p) == {t.tag : t \in {u \in Tabs \cup ExtraTabs : u.page = p}}

\* values typed into the required text fields of a form
FieldInputs(tab) ==
    IF tab.check = "strip"
    THEN {<< <<>> >>, << <<" ">> >>, << <<"J">> >>}
    ELSE {<< <<>>, <<>> >>, << <<"J">>, <<>> >>, << <<" ">>, <<" ">> >>,
          << <<"J">>, <<"E">> >>}

\* what the provider client does with a request
Responses == {<<>>, <<"*", "*">>, <<" ">>, <<"*", "*", "H", "*", "*", " ", "#", "W">>}
ExceptionMessages == {"Request timed out.", "429 quota exceeded"}
\* "reject_key": the service refuses the credential of the request and the
\* client raises an authentication error
ProviderBehaviours ==
    {[kind |-> "text", text |-> r, msg |-> ""] : r \in Responses}
    \cup {[kind |-> "raise", text |-> <<>>, msg |-> m] : m \in ExceptionMessages}
    \cup {[kind |-> "reject_key", text |-> <<>>, msg |-> ""]}

\* Optional[str]
None == [isNone |-> TRUE, text |-> <<>>]
Some(s) == [isNone |-> FALSE, text |-> s]
\* `if content:`
TruthyOpt(o) == ~o.isNone /\ Truthy(o.text)

\* messages shown with st.error
Msg(m, d) == [msg |-> m, detail |-> d]
MsgNoGeminiKey == Msg("Please add your Gemini API key to the .env file", "")
MsgNoOpenAIKey == Msg("Please add your OpenAI API key to the .env file", "")
MsgNoValidModel == Msg("No valid model selected or available.", "")
MsgGenerationError(e) == Msg("Error generating content: ", e)
MsgFillIn == Msg("Please fill in the required fields", "")
MsgNoApiKeyFound == Msg("No API key found. Please add GEMINI_API_KEY or OPENAI_API_KEY to your .env file.", "")
MsgGeminiKeyNotFound == Msg("GEMINI_API_KEY not found in .env file. Please add your API key to the .env file.", "")
MsgGeminiKeyLoaded == Msg("Gemini API Key loaded", "")
MsgGeminiKeyMissing == Msg("GEMINI_API_KEY not found", "")
MsgOpenAIKeyLoaded == Msg("OpenAI API Key loaded", "")
MsgOpenAIKeyMissing == Msg("OPENAI_API_KEY not found", "")
ImportErrorMessage == "cannot import name 'OpenAI' from 'openai'"

available_models ==
    (IF GEMINI_API_KEY # NoKey THEN <<Gemini>> ELSE <<>>)
    \o (IF OPENAI_API_KEY # NoKey THEN <<OpenAI>> ELSE <<>>)

InSeq(x, s) == \E i \in 1..Len(s) : s[i] = x


(***************************************************************************)
(* generate_content / generate_ai_content                                  *)
(***************************************************************************)
\* the outcome of one call: the value returned, the st.error messages, the
\* requests issued to provider clients, whether an exception left the
\* function, and the key genai holds afterwards
GenResult(ret, errors, requests, raised, conf) ==
    [ret |-> ret, errors |-> errors, requests |-> requests,
     raised |-> raised, genai_key |-> conf]

Request(provider, key, input) ==
    [provider |-> provider, api_key |-> key, input |-> input]

\* the text that quotes the credential `key`
Quoting(key) ==
    IF key = "openai-key" THEN "Incorrect API key provided: openai-key."
    ELSE IF key = "gemini-key" THEN "API key not valid: gemini-key."
    ELSE "Incorrect API key provided."

\* str(e) of the authentication error a client raises for a request: the
\* OpenAI service quotes the key it was given, the Gemini service does not
AuthErrorMessage(req) ==
    IF req.provider = OpenAI THEN Quoting(req.api_key)
    ELSE "API key not valid. Please pass a valid API key."

\* str(e) of the exception that behaviour b raises for request req
ExceptionText(req, b) ==
    IF b.kind = "reject_key" THEN AuthErrorMessage(req) ELSE b.msg

\* TryRequest without the except clause: the exception leaves generate
TryRequest_uncaught(req, b, conf) ==
    IF b.kind \in {"raise", "reject_key"}
    THEN GenResult(None, <<>>, <<req>>, TRUE, conf)
    ELSE GenResult(Some(b.text), <<>>, <<req>>, FALSE, conf)

\* try: <request>; return <text>   except Exception as e: st.error(...); return None
TryRequest(req, b, conf) ==
    IF b.kind \in {"raise", "reject_key"}
    THEN GenResult(None, <<MsgGenerationError(ExceptionText(req, b))>>, <<req>>, FALSE, conf)
    ELSE GenResult(Some(b.text), <<>>, <<req>>, FALSE, conf)

\* GeminiBranch with a second attempt after a failed request
GeminiBranch_retry(configures, conf, b) ==
    IF GEMINI_API_KEY = NoKey
    THEN GenResult(None, <<MsgNoGeminiKey>>, <<>>, FALSE, conf)
    ELSE LET key == IF configures THEN GEMINI_API_KEY ELSE conf
             req == Request(Gemini, key, <<"system_prompt", "\n\n", "prompt">>)
             r == TryRequest(req, b, key)
         IN  IF b.kind = "raise"
             THEN GenResult(r.ret, r.errors, <<req, req>>, r.raised, key)
             ELSE r

\* the Gemini branch; `configures` tells whether the branch itself calls
\* genai.configure(api_key=GEMINI_API_KEY)
GeminiBranch(configures, conf, b) ==
    IF GEMINI_API_KEY = NoKey
    THEN GenResult(None, <<MsgNoGeminiKey>>, <<>>, FALSE, conf)
    ELSE LET key == IF configures THEN GEMINI_API_KEY ELSE conf
         IN  TryRequest(Request(Gemini, key, <<"system_prompt", "\n\n", "prompt">>), b, key)

\* the OpenAI branch of pages 01 to 06: the import is inside the try
OpenAIBranch(conf, b) ==
    IF OPENAI_API_KEY = NoKey
    THEN GenResult(None, <<MsgNoOpenAIKey>>, <<>>, FALSE, conf)
    ELSE IF openai_lib # "installed"
    THEN GenResult(None, <<MsgGenerationError(ImportErrorMessage)>>, <<>>, FALSE, conf)
    ELSE TryRequest(Request(OpenAI, OPENAI_API_KEY, <<"prompt">>), b, conf)

\* the else branch of pages 07 to 09: the import precedes the key check
\* and the try
OpenAIBranchLate(conf, b) ==
    IF openai_lib # "installed"
    THEN GenResult(None, <<>>, <<>>, TRUE, conf)
    ELSE IF OPENAI_API_KEY = NoKey
    THEN GenResult(None, <<MsgNoOpenAIKey>>, <<>>, FALSE, conf)
    ELSE TryRequest(Request(OpenAI, OPENAI_API_KEY, <<"prompt">>), b, conf)

\* pages 01 to 06
generate_ai_content(stored_choice, conf, b) ==
    LET model_choice ==
            IF stored_choice # Unset THEN stored_choice
            ELSE IF available_models # <<>> THEN available_models[1] ELSE Gemini
    IN  IF model_choice = Gemini THEN GeminiBranch(TRUE, conf, b)
        ELSE IF model_choice = OpenAI THEN OpenAIBranch(conf, b)
        ELSE GenResult(None, <<MsgNoValidModel>>, <<>>, FALSE, conf)

\* generate_content with the two branches exchanged
generate_content_crossed(p, stored_choice, conf, b) ==
    LET model_choice == IF stored_choice # Unset THEN stored_choice ELSE Gemini
    IN  IF model_choice = Gemini THEN OpenAIBranchLate(conf, b)
        ELSE GeminiBranch(p = "08", conf, b)

\* pages 07 to 09; only page 08 configures genai inside the function
generate_content(p, stored_choice, conf, b) ==
    LET model_choice == IF stored_choice # Unset THEN stored_choice ELSE Gemini
    IN  IF model_choice = Gemini THEN GeminiBranch(p = "08", conf, b)
        ELSE OpenAIBranchLate(conf, b)

generate(p, stored_choice, conf, b) ==
    IF p \in SelectorPages THEN generate_ai_content(stored_choice, conf, b)
    ELSE generate_content(p, stored_choice, conf, b)

(***************************************************************************)
(* One script run of a page                                                *)
(***************************************************************************)
NoPick == "<no pick>"
NoClick == [tab |-> [page |-> "-", tag |-> "-", check |-> "-"],
            fields |-> <<>>,
            behaviour |-> [kind |-> "-", text |-> <<>>, msg |-> ""],
            photos |-> <<>>]
ClickWith(tab, fields, b, photos) ==
    [tab |-> tab, fields |-> fields, behaviour |-> b, photos |-> photos]
Click(tab, fields, b) == ClickWith(tab, fields, b, <<>>)

\* the sentence the incident-report handler adds to its prompt when photos
\* are uploaded
ImageHint == "Analyze the provided image(s)"

\* the request of generate_content(report_prompt, ..., image_files=photos)
\* of page 05: the prompt carries the image hint; the Gemini branch
\* appends one part per image, the OpenAI branch sends `input=prompt`
WithPhotos(req, photos) ==
    LET hinted == Replace(req.input, <<"prompt">>, <<"prompt", ImageHint>>)
    IN  IF photos = <<>> THEN req
        ELSE [req EXCEPT !.input = IF req.provider = Gemini
                                  THEN hinted \o photos ELSE hinted]

\* st.selectbox: the option the user picked, else the option at `index`
selectbox(current, pick) == IF pick # NoPick THEN pick ELSE current

\* Sidebar of a page that offers the stored choice without looking at the
\* configured credentials
Sidebar_keeps_stored(p, stored_choice, pick) ==
    IF p = HomePage
    THEN selectbox(IF stored_choice = Unset THEN Gemini ELSE stored_choice, pick)
    ELSE IF p \in SelectorPages /\ available_models # <<>>
    THEN selectbox(IF stored_choice = Unset THEN available_models[1] ELSE stored_choice, pick)
    ELSE stored_choice

\* the sidebar: the value of st.session_state['model_choice'] afterwards
Sidebar(p, stored_choice, pick) ==
    IF p = HomePage
    THEN selectbox(IF stored_choice = Unset THEN Gemini ELSE stored_choice, pick)
    ELSE IF p \in SelectorPages /\ available_models # <<>>
    THEN selectbox(IF stored_choice = Unset \/ ~InSeq(stored_choice, available_models)
                   THEN available_models[1] ELSE stored_choice, pick)
    ELSE stored_choice

\* the credential status the sidebar shows; `choice` is model_choice as the
\* status lines read it (on pages 01 to 06, after the selector)
SidebarStatus(p, choice) ==
    IF p \in SelectorPages
    THEN IF available_models = <<>> THEN <<>>
         ELSE IF choice = Gemini THEN <<MsgGeminiKeyLoaded>> ELSE <<MsgOpenAIKeyLoaded>>
    ELSE IF p \in ModulePages
    THEN IF choice = Gemini
         THEN IF GEMINI_API_KEY # NoKey THEN <<MsgGeminiKeyLoaded>> ELSE <<MsgGeminiKeyMissing>>
         ELSE IF OPENAI_API_KEY # NoKey THEN <<MsgOpenAIKeyLoaded>> ELSE <<MsgOpenAIKeyMissing>>
    ELSE <<>>

\* the options the sidebar selector of page p offers
SelectorOptions(p) ==
    IF p = HomePage THEN {Gemini, OpenAI}
    ELSE IF p \in SelectorPages THEN {available_models[i] : i \in 1..Len(available_models)}
    ELSE {}

\* the form values of a new session: no key is in st.session_state
NoFormValues == [job_level |-> Unset, custom_prompt |-> None]

\* the options of the "Job Level" select box of page p
JobLevelOptions(p) ==
    IF p = "01"
    THEN <<"Individual Contributor", "Team Lead", "Manager", "Senior Manager",
           "Director", "VP", "C-Level">>
    ELSE <<"Entry Level", "Mid Level", "Senior Level", "Manager", "Senior Manager",
           "Director", "VP">>

\* the values of 'job_level' the "Sample" buttons of page p store
SampleJobLevels(p) ==
    IF p = "01" THEN {"Individual Contributor", "Manager"}
    ELSE IF p = "03" THEN {"Senior Level", "Manager", "Mid Level"}
    ELSE {}

\* the "Job Level" select box of page p: options.index(stored value) raises
\* ValueError for a value that is not an option; page 03 catches it and
\* pre-selects the option at index 1, page 01 does not catch it
JobLevelSelect(p, form) ==
    LET options == JobLevelOptions(p)
        current == IF form.job_level # Unset THEN form.job_level
                   ELSE IF p = "01" THEN "Individual Contributor" ELSE "Mid Level"
    IN  IF InSeq(current, options) THEN [raised |-> FALSE, value |-> current]
        ELSE IF p = "03" THEN [raised |-> FALSE, value |-> options[2]]
        ELSE [raised |-> p = "01", value |-> ""]

\* FormFilled of a handler that calls generate without looking at the form
FormFilled_unchecked(tab, fields) == TRUE

\* `if a and b:` or `if custom_prompt.strip():`
FormFilled(tab, fields) ==
    IF tab.check = "strip" THEN Truthy(Strip(fields[1]))
    ELSE \A i \in 1..Len(fields) : Truthy(fields[i])

\* Shown of a page 04 that displays the stored text as pages 01 and 02 do
Shown_raw_on_04(p, content) ==
    IF p \in {"01", "02", "04"} THEN content
    ELSE IF p = "03" THEN clean_markdown_text(content)
    ELSE clean_text(content)

\* the text a display section shows for a stored result
Shown(p, content) ==
    IF p \in {"01", "02"} THEN content
    ELSE IF p = "03" THEN clean_markdown_text(content)
    ELSE clean_text(content)

\* the text the plain-text download button offers
Downloaded(p, content) ==
    IF p \in {"01", "02"} THEN content
    ELSE IF p = "03" THEN clean_markdown_text(content)
    ELSE clean_text(clean_text(content))

\* the offer document is shown as it is stored
Display(p, slots) ==
    [t \in TagsOf(p) \cap DOMAIN slots |->
        IF t = OfferTab.tag THEN slots[t] ELSE Shown(p, slots[t])]
\* the bias analysis is displayed only
Downloads(p, slots) ==
    [t \in (TagsOf(p) \ {BiasTab.tag}) \cap DOMAIN slots |-> Downloaded(p, slots[t])]

NoText == [t \in {} |-> <<>>]

\* event: what triggered the run; notices: messages of the page head and the
\* sidebar; called: generate was called; returned: its value; raised: an
\* exception ended the script; errors: st.error messages of the handler and
\* of generate; stored: the handler wrote its slot; displayed, downloaded:
\* what the display sections of the page show and offer, by tag
RunRecord(event, click, notices, called, ret, raised, errors, requests, stored, shown, offered) ==
    [event |-> event, tab |-> click.tab, fields |-> click.fields,
     behaviour |-> click.behaviour, photos |-> click.photos, notices |-> notices,
     called |-> called, returned |-> ret, raised |-> raised,
     errors |-> errors, requests |-> requests, stored |-> stored,
     displayed |-> shown, downloaded |-> offered]

\* Store that keeps the value a slot already holds
Store_keeps_earlier(slots, tag, content) ==
    [t \in DOMAIN slots \cup {tag} |-> IF t \in DOMAIN slots THEN slots[t] ELSE content]

\* generated_content[tag] = content
Store(slots, tag, content) ==
    [t \in DOMAIN slots \cup {tag} |-> IF t = tag THEN content ELSE slots[t]]

\* messages of the page head
TopErrors(p) ==
    IF p \in {"07", "09"} /\ GEMINI_API_KEY = NoKey THEN <<MsgGeminiKeyNotFound>>
    ELSE IF p \in SelectorPages /\ available_models = <<>> THEN <<MsgNoApiKeyFound>>
    ELSE <<>>

\* the genai key after the page head: pages 07 and 09 configure genai there
TopConfigure(p) ==
    IF p \in {"07", "09"} /\ GEMINI_API_KEY # NoKey THEN GEMINI_API_KEY ELSE genai_api_key

\* the handler passed its required-field check
Filled(click) == click # NoClick /\ FormFilled(click.tab, click.fields)

\* the prompt of the offer handler holds {candidate_name.split()[0]}
PromptRaises(click) ==
    Filled(click) /\ click.tab = OfferTab /\ Words(click.fields[1], <<>>) = <<>>

\* the handler calls generate
Calls(click) == Filled(click) /\ ~PromptRaises(click)

\* the call of generate by the handler, if it gets there
Called(p, choice, conf, click) ==
    IF Calls(click) THEN generate(p, choice, conf, click.behaviour)
    ELSE GenResult(None, <<>>, <<>>, PromptRaises(click), conf)

\* the text the handler has for its slot: the offer handler formats the
\* result as a letter
Content(g, click) ==
    IF click.tab = OfferTab /\ ~g.raised /\ TruthyOpt(g.ret)
    THEN format_letter_with_letterhead(g.ret.text, click.fields[1])
    ELSE [raised |-> FALSE, text |-> g.ret.text]

\* what the handler did: the result of generate with the requests as sent,
\* and the text for the slot
Handled(g, content, click) ==
    [ret |-> g.ret, errors |-> g.errors,
     requests |-> [i \in DOMAIN g.requests |-> WithPhotos(g.requests[i], click.photos)],
     raised |-> g.raised \/ content.raised, genai_key |-> g.genai_key,
     content |-> content.text]

HandlerOutcome(g, click) == Handled(g, Content(g, click), click)

Handler(p, choice, conf, click) == HandlerOutcome(Called(p, choice, conf, click), click)

\* `if content: st.session_state.generated_content[tag] = content`
Stores(h, click) == Calls(click) /\ ~h.raised /\ TruthyOpt(h.ret)

NewSlots(slots, h, click) ==
    IF Stores(h, click) THEN Store(slots, click.tab.tag, h.content) ELSE slots

HandlerErrors(h, click) ==
    IF click # NoClick /\ ~Filled(click) THEN <<MsgFillIn>> ELSE h.errors

\* the outcome of a run whose handler did h and left the slots slots2
ScriptResult(p, event, click, form, choice, notices, h, slots2) ==
    [session |-> [model_choice |-> choice, generated_content |-> slots2],
     genai_key |-> h.genai_key, form |-> form,
     run |-> RunRecord(event, click, notices, Calls(click), h.ret, h.raised,
                       HandlerErrors(h, click), h.requests, Stores(h, click),
                       IF h.raised THEN NoText ELSE Display(p, slots2),
                       IF h.raised THEN NoText ELSE Downloads(p, slots2))]

ScriptRun(p, event, click, form, choice, notices, h, slots) ==
    ScriptResult(p, event, click, form, choice, notices, h, NewSlots(slots, h, click))

\* a run whose form raised: the page head and the sidebar have run
ScriptRaised(event, form, choice, notices, conf, slots) ==
    [session |-> [model_choice |-> choice, generated_content |-> slots],
     genai_key |-> conf, form |-> form,
     run |-> RunRecord(event, NoClick, notices, FALSE, None, TRUE, <<>>, <<>>, FALSE,
                       NoText, NoText)]

\* the script after the sidebar
ScriptFrom(p, event, click, form, choice, notices, conf) ==
    IF JobLevelSelect(p, form).raised
    THEN ScriptRaised(event, form, choice, notices, conf, session_state.generated_content)
    ELSE ScriptRun(p, event, click, form, choice, notices,
                   Handler(p, choice, conf, click), session_state.generated_content)

ScriptAfterSidebar(p, event, click, form, choice) ==
    ScriptFrom(p, event, click, form, choice, TopErrors(p) \o SidebarStatus(p, choice),
               TopConfigure(p))

\* The script of page p, top to bottom, for one event.  Yields the new
\* session state, the new genai key and the record of the run.
ScriptWith(p, event, pick, click, form) ==
    IF p = "08" /\ openai_lib = "absent"
    THEN [session |-> session_state, genai_key |-> genai_api_key, form |-> form,
          run |-> RunRecord(event, NoClick, <<>>, FALSE, None, TRUE, <<>>, <<>>, FALSE, NoText, NoText)]
    ELSE ScriptAfterSidebar(p, event, click, form,
                            Sidebar(p, session_state.model_choice, pick))

Script(p, event, pick, click) == ScriptWith(p, event, pick, click, form_values)

(***************************************************************************)
(* Actions of a browser session                                            *)
(***************************************************************************)
Apply(p, result) ==
    /\ page' = p
    /\ previous_content' = session_state.generated_content
    /\ previous_choice' = session_state.model_choice
    /\ form_values' = result.form
    /\ bias_source' = IF result.run.stored /\ result.run.tab = BiasTab
                      THEN Some(session_state.generated_content["job_description"])
                      ELSE bias_source
    /\ session_state' = result.session
    /\ genai_api_key' = result.genai_key
    /\ run' = result.run
    /\ UNCHANGED envVars
    /\ UNCHANGED normVars
    /\ UNCHANGED concVars

\* positions of the two specifications of a browser session
SessionModes == {"session", "store", "form", "ta"}

GenerationBound ==
    IF npc \in {"store", "ta", "form"} THEN MaxStoreGenerations ELSE MaxGenerations

\* the user opens page p (or the page reruns without a widget event)
Open(p) ==
    /\ npc \in SessionModes
    /\ Apply(p, Script(p, "open", NoPick, NoClick))
    /\ UNCHANGED generations

\* the user picks a model in the sidebar selector of the current page
SelectModel(m) ==
    /\ npc \in SessionModes
    /\ run.event # "init"
    /\ ~run.raised
    /\ m \in SelectorOptions(page)
    /\ Apply(page, Script(page, "select", m, NoClick))
    /\ UNCHANGED generations

\* the user clicks the "Generate" button of a tab of the current page
ClickGenerate(tab, fields, b) ==
    /\ npc \in SessionModes
    /\ run.event # "init"
    /\ ~run.raised
    /\ tab.page = page
    /\ generations < GenerationBound
    /\ generations' = generations + 1
    /\ Apply(page, Script(page, "generate", NoPick, Click(tab, fields, b)))

\* the user clicks a "Sample" button of the current page: the handler
\* stores the sample values with st.session_state.update before the form
\* of the page is rendered
LoadSample(level) ==
    /\ npc = "form"
    /\ run.event # "init"
    /\ ~run.raised
    /\ level \in SampleJobLevels(page)
    /\ Apply(page, ScriptWith(page, "sample", NoPick, NoClick,
                              [form_values EXCEPT !.job_level = level]))
    /\ UNCHANGED generations

\* the user clicks "Check for Bias", which the job-description tab shows
\* below a stored job description: the prompt quotes the stored job
\* description and the result goes to the slot 'bias_analysis'
CheckBias(b) ==
    /\ npc = "ta"
    /\ page = "03"
    /\ run.event # "init"
    /\ ~run.raised
    /\ "job_description" \in DOMAIN session_state.generated_content
    /\ Apply(page, Script(page, "generate", NoPick, Click(BiasTab, <<>>, b)))
    /\ UNCHANGED generations

\* uploads of the incident-report tab
Photos == {<<>>, <<"photo 1">>, <<"photo 1", "photo 2">>}

\* the user clicks "Generate Incident Report" with the four required fields
\* filled in and the photos uploaded
GenerateIncidentReport(photos, b) ==
    /\ npc = "form"
    /\ page = "05"
    /\ run.event # "init"
    /\ ~run.raised
    /\ generations < GenerationBound
    /\ generations' = generations + 1
    /\ Apply(page, Script(page, "generate", NoPick,
                          ClickWith(IncidentTab, << <<"J">>, <<"E">>, <<"J">>, <<"E">> >>,
                                    b, photos)))

\* candidate name and position typed into the offer form
OfferInputs ==
    {<< <<"J">>, <<"E">> >>, << <<" ">>, <<"E">> >>, << <<"J", " ", "E">>, <<" ">> >>,
     << <<>>, <<"E">> >>}

\* responses to the offer prompt: a letter, and a letter after a line of
\* commentary
OfferBehaviours ==
    {[kind |-> "text", text |-> r, msg |-> ""] :
        r \in {<<>>, <<"Dear", " ", "J", NL, "*", "W">>,
               <<"Here's", NL, "Dear", " ", "J", NL, "W">>}}
    \cup {[kind |-> "raise", text |-> <<>>, msg |-> "Request timed out."]}

\* Remove that empties generated_content
Remove_everything(slots, tag) == [t \in {} |-> <<>>]

\* del st.session_state.generated_content[tag]
Remove(slots, tag) == [t \in DOMAIN slots \ {tag} |-> slots[t]]

\* the prompts the "Sample" and "Get Ideas" buttons of a custom tab store
TemplatePrompts == {<<"J">>, <<"E", " ">>}

\* the user clicks a template button of the custom tab of page 01: the
\* handler stores the prompt before the text area is rendered
UseTemplate(prompt) ==
    /\ npc = "form"
    /\ page = "01"
    /\ run.event # "init"
    /\ ~run.raised
    /\ Apply(page, ScriptWith(page, "template", NoPick, NoClick,
                              [form_values EXCEPT !.custom_prompt = Some(prompt)]))
    /\ UNCHANGED generations

\* ClearedForm of a handler that clears every stored form value
ClearedForm_reset(form) == [job_level |-> Unset, custom_prompt |-> Some(<<>>)]

\* st.session_state['custom_prompt'] = ''
ClearedForm(form) == [form EXCEPT !.custom_prompt = Some(<<>>)]

\* run r of page p with the slots slots2 and the prompt of tab cleared
ClearedTo(p, r, tab, slots2) ==
    [session |-> [r.session EXCEPT !.generated_content = slots2],
     genai_key |-> r.genai_key, form |-> ClearedForm(r.form),
     run |-> [r.run EXCEPT !.tab = tab,
                           !.displayed = Display(p, slots2),
                           !.downloaded = Downloads(p, slots2)]]

\* the handler of "Clear Form" and the rerun it asks for
Cleared(r, tab) == ClearedTo(tab.page, r, tab, Remove(r.session.generated_content, tab.tag))

\* the custom tabs, which have a "Clear Form" button
CustomTabs == {t \in Tabs : t.check = "strip"}

\* the user clicks "Clear Form" of a custom tab of the current page: the
\* handler deletes the slot of the tab and calls st.rerun()
ClearForm(tab) ==
    /\ npc \in SessionModes
    /\ run.event # "init"
    /\ ~run.raised
    /\ tab \in CustomTabs
    /\ tab.page = page
    /\ Apply(page, Cleared(Script(page, "clear", NoPick, NoClick), tab))
    /\ UNCHANGED generations

\* the browser sessions that run against the one process
Sessions == 1..MaxSessions

\* a session that has not started a script run
NewSession ==
    [pc |-> "new", tab |-> NoClick.tab, model_choice |-> Unset,
     behaviour |-> NoClick.behaviour, requests |-> <<>>, returned |-> None,
     errors |-> <<>>, raised |-> FALSE, generated_content |-> NoText]

NoSessions == [s \in Sessions |-> NewSession]

InitRun == RunRecord("init", NoClick, <<>>, FALSE, None, FALSE, <<>>, <<>>, FALSE, NoText, NoText)

Init ==
    /\ GEMINI_API_KEY \in GeminiKeys
    /\ OPENAI_API_KEY \in OpenAIKeys
    /\ openai_lib \in LibStates
    /\ genai_api_key = NoKey
    /\ session_state = [model_choice |-> Unset, generated_content |-> NoText]
    /\ page = MainPage
    /\ run = InitRun
    /\ generations = 0
    /\ previous_content = NoText
    /\ bias_source = None
    /\ form_values = NoFormValues
    /\ previous_choice = Unset
    /\ text = <<>>
    /\ normalizer = "-"
    /\ once = <<>>
    /\ twice = <<>>
    /\ npc = "session"
    /\ sessions = NoSessions

Next ==
    \/ \E p \in Pages : Open(p)
    \/ \E m \in {Gemini, OpenAI} : SelectModel(m)
    \/ \E tab \in Tabs : \E fields \in FieldInputs(tab) :
           \E b \in ProviderBehaviours : ClickGenerate(tab, fields, b)
    \/ \E tab \in Tabs : ClearForm(tab)

Spec == Init /\ [][Next]_vars

(***************************************************************************)
(* The result slots over several generations, forms filled in: a           *)
(* deployment with both credentials and both client libraries, and one     *)
(* with the Gemini credential and library only                             *)
(***************************************************************************)
StoreDeployments ==
    {[openai_key |-> "openai-key", lib |-> "installed"],
     [openai_key |-> NoKey, lib |-> "absent"]}

FilledFields(tab) ==
    IF tab.check = "strip" THEN << <<"J">> >> ELSE << <<"J">>, <<"E">> >>

InitStore ==
    /\ GEMINI_API_KEY = "gemini-key"
    /\ \E d \in StoreDeployments :
           OPENAI_API_KEY = d.openai_key /\ openai_lib = d.lib
    /\ genai_api_key = NoKey
    /\ session_state = [model_choice |-> Unset, generated_content |-> NoText]
    /\ page = MainPage
    /\ run = InitRun
    /\ generations = 0
    /\ previous_content = NoText
    /\ bias_source = None
    /\ form_values = NoFormValues
    /\ previous_choice = Unset
    /\ text = <<>>
    /\ normalizer = "-"
    /\ once = <<>>
    /\ twice = <<>>
    /\ npc = "store"
    /\ sessions = NoSessions

\* what the provider does in the sessions with several generations: an
\* empty text, two texts with markdown, an exception
StoreBehaviours ==
    {b \in ProviderBehaviours :
        \/ b.kind = "text" /\ Len(b.text) \in {0, 2, 8}
        \/ b.kind = "raise" /\ b.msg = "Request timed out."}

NextStore ==
    \/ \E p \in Pages : Open(p)
    \/ \E m \in {Gemini, OpenAI} : SelectModel(m)
    \/ \E tab \in Tabs : \E b \in StoreBehaviours :
           ClickGenerate(tab, FilledFields(tab), b)
    \/ \E tab \in Tabs : ClearForm(tab)

SpecStore == InitStore /\ [][NextStore]_vars

(***************************************************************************)
(* The forms of the module pages: a deployment with both credentials and   *)
(* both client libraries                                                   *)
(***************************************************************************)
InitForm ==
    /\ GEMINI_API_KEY = "gemini-key"
    /\ OPENAI_API_KEY = "openai-key"
    /\ openai_lib = "installed"
    /\ genai_api_key = NoKey
    /\ session_state = [model_choice |-> Unset, generated_content |-> NoText]
    /\ page = MainPage
    /\ run = InitRun
    /\ generations = 0
    /\ previous_content = NoText
    /\ bias_source = None
    /\ previous_choice = Unset
    /\ form_values = NoFormValues
    /\ text = <<>>
    /\ normalizer = "-"
    /\ once = <<>>
    /\ twice = <<>>
    /\ npc = "form"
    /\ sessions = NoSessions

\* what the provider does in the sessions that exercise the forms: an
\* empty text, a text with markdown, an exception
FormBehaviours ==
    {b \in ProviderBehaviours :
        \/ b.kind = "text" /\ Len(b.text) \in {0, 8}
        \/ b.kind = "raise" /\ b.msg = "Request timed out."}

AllJobLevels == UNION {SampleJobLevels(p) : p \in ModulePages}

NextForm ==
    \/ \E p \in Pages : Open(p)
    \/ \E m \in {Gemini, OpenAI} : SelectModel(m)
    \/ \E photos \in Photos : \E b \in FormBehaviours :
           GenerateIncidentReport(photos, b)
    \/ \E level \in AllJobLevels : LoadSample(level)
    \/ \E prompt \in TemplatePrompts : UseTemplate(prompt)
    \/ \E tab \in {t \in Tabs : t.page = "01"} : \E b \in FormBehaviours :
           ClickGenerate(tab, FilledFields(tab), b)
    \/ \E tab \in Tabs : ClearForm(tab)

SpecForm == InitForm /\ [][NextForm]_vars

(***************************************************************************)
(* Module 03, talent acquisition: a deployment with both credentials and   *)
(* both client libraries, forms filled in                                  *)
(***************************************************************************)
InitTA ==
    /\ GEMINI_API_KEY = "gemini-key"
    /\ OPENAI_API_KEY = "openai-key"
    /\ openai_lib = "installed"
    /\ genai_api_key = NoKey
    /\ session_state = [model_choice |-> Unset, generated_content |-> NoText]
    /\ page = MainPage
    /\ run = InitRun
    /\ generations = 0
    /\ previous_content = NoText
    /\ bias_source = None
    /\ form_values = NoFormValues
    /\ previous_choice = Unset
    /\ text = <<>>
    /\ normalizer = "-"
    /\ once = <<>>
    /\ twice = <<>>
    /\ npc = "ta"
    /\ sessions = NoSessions

NextTA ==
    \/ \E p \in {HomePage, "03"} : Open(p)
    \/ \E m \in {Gemini, OpenAI} : SelectModel(m)
    \/ \E tab \in {t \in Tabs : t.page = "03"} : \E b \in ProviderBehaviours :
           ClickGenerate(tab, FilledFields(tab), b)
    \/ \E b \in ProviderBehaviours : CheckBias(b)
    \/ \E fields \in OfferInputs : \E b \in OfferBehaviours :
           ClickGenerate(OfferTab, fields, b)

SpecTA == InitTA /\ [][NextTA]_vars

(***************************************************************************)
(* Concurrent sessions: Streamlit runs the script of every browser session *)
(* in a thread of the one server process.  st.session_state belongs to the *)
(* session; the configuration of the genai library and the environment     *)
(* belong to the process.  A script run that a "Generate" click starts is  *)
(* split at its accesses to the genai configuration.                       *)
(***************************************************************************)
\* tabs for each way a page configures genai: inside generate behind a
\* selector (01 to 06), at module level (07, 09), inside generate without a
\* selector (08)
ConcTabs ==
    {t \in Tabs : t.tag \in {"idp", "job_description", "training_design",
                             "pay_revision_letter", "bsc_framework"}}

ConcBehaviours ==
    {b \in ProviderBehaviours :
        \/ b.kind = "text" /\ b.text \in {<<>>, <<"*", "*", "H", "*", "*", " ", "#", "W">>}
        \/ b.kind = "raise" /\ b.msg = "Request timed out."}

\* ConfigureKey of a program in which every session has a key of its own
ConfigureKey_of_session(s) == IF s = 1 THEN GEMINI_API_KEY ELSE "key of another session"

\* the key that the script of session s hands to genai.configure: every
\* session reads the same environment
ConfigureKey(s) == GEMINI_API_KEY

\* the session ends its script run with these results of generate
Finish(s, ret, errors, requests, raised, b) ==
    sessions' = [sessions EXCEPT ![s] =
        [@ EXCEPT !.pc = "done", !.returned = ret, !.errors = errors,
                  !.requests = requests, !.raised = raised, !.behaviour = b,
                  !.generated_content =
                      IF ~raised /\ TruthyOpt(ret)
                      THEN Store(@, sessions[s].tab.tag, ret.text) ELSE @]]

\* session s, on the page of `tab` with the stored choice m, clicks
\* "Generate" with the form filled: the script runs its head and sidebar
ConcStart(s, tab, m) ==
    /\ npc = "conc"
    /\ sessions[s].pc = "new"
    /\ genai_api_key' = IF tab.page \in {"07", "09"} /\ GEMINI_API_KEY # NoKey
                        THEN ConfigureKey(s) ELSE genai_api_key
    /\ IF tab.page = "08" /\ openai_lib = "absent"
       THEN sessions' = [sessions EXCEPT ![s] =
                [@ EXCEPT !.pc = "done", !.tab = tab, !.model_choice = m, !.raised = TRUE]]
       ELSE sessions' = [sessions EXCEPT ![s] =
                [@ EXCEPT !.pc = "called", !.tab = tab,
                          !.model_choice = Sidebar(tab.page, m, NoPick)]]
    /\ UNCHANGED <<session_state, page, run, generations, previous_content, bias_source, form_values,
                 previous_choice>>
    /\ UNCHANGED envVars
    /\ UNCHANGED normVars

\* the provider that generate dispatches on
Dispatched(p, stored_choice) ==
    IF stored_choice # Unset THEN stored_choice
    ELSE IF p \in SelectorPages /\ available_models # <<>> THEN available_models[1]
    ELSE Gemini

\* generate, from its entry to the point before the request: the checks of
\* the branch, the import of the OpenAI client, genai.configure
ConcEnter(s) ==
    /\ npc = "conc"
    /\ sessions[s].pc = "called"
    /\ LET p == sessions[s].tab.page
           m == Dispatched(p, sessions[s].model_choice)
           b == NoClick.behaviour
           proceed == sessions' = [sessions EXCEPT ![s].pc = "request"]
       IN  IF m = Gemini
           THEN IF GEMINI_API_KEY = NoKey
                THEN /\ Finish(s, None, <<MsgNoGeminiKey>>, <<>>, FALSE, b)
                     /\ UNCHANGED genai_api_key
                ELSE /\ genai_api_key' = IF p \in {"07", "09"} THEN genai_api_key
                                         ELSE ConfigureKey(s)
                     /\ proceed
           ELSE /\ UNCHANGED genai_api_key
                /\ IF p \in SelectorPages
                   THEN IF m # OpenAI
                        THEN Finish(s, None, <<MsgNoValidModel>>, <<>>, FALSE, b)
                        ELSE IF OPENAI_API_KEY = NoKey
                        THEN Finish(s, None, <<MsgNoOpenAIKey>>, <<>>, FALSE, b)
                        ELSE IF openai_lib # "installed"
                        THEN Finish(s, None, <<MsgGenerationError(ImportErrorMessage)>>,
                                    <<>>, FALSE, b)
                        ELSE proceed
                   ELSE IF openai_lib # "installed"
                        THEN Finish(s, None, <<>>, <<>>, TRUE, b)
                        ELSE IF OPENAI_API_KEY = NoKey
                        THEN Finish(s, None, <<MsgNoOpenAIKey>>, <<>>, FALSE, b)
                        ELSE proceed
    /\ UNCHANGED <<session_state, page, run, generations, previous_content, bias_source, form_values,
                 previous_choice>>
    /\ UNCHANGED envVars
    /\ UNCHANGED normVars

\* the request: the genai client takes the key that the library holds at
\* this moment, the OpenAI client the key it was constructed with; then the
\* handler stores a truthy result in the slot of the session
ConcRequest(s, b) ==
    /\ npc = "conc"
    /\ sessions[s].pc = "request"
    /\ LET m == Dispatched(sessions[s].tab.page, sessions[s].model_choice)
           req == IF m = Gemini
                  THEN Request(Gemini, genai_api_key, <<"system_prompt", "\n\n", "prompt">>)
                  ELSE Request(OpenAI, OPENAI_API_KEY, <<"prompt">>)
           r == TryRequest(req, b, genai_api_key)
       IN  Finish(s, r.ret, r.errors, r.requests, r.raised, b)
    /\ UNCHANGED <<genai_api_key, session_state, page, run, generations, previous_content, bias_source, form_values,
                 previous_choice>>
    /\ UNCHANGED envVars
    /\ UNCHANGED normVars

InitConc ==
    /\ GEMINI_API_KEY \in GeminiKeys
    /\ OPENAI_API_KEY \in OpenAIKeys
    /\ openai_lib \in LibStates
    /\ genai_api_key = NoKey
    /\ session_state = [model_choice |-> Unset, generated_content |-> NoText]
    /\ page = MainPage
    /\ run = InitRun
    /\ generations = 0
    /\ previous_content = NoText
    /\ bias_source = None
    /\ form_values = NoFormValues
    /\ previous_choice = Unset
    /\ text = <<>>
    /\ normalizer = "-"
    /\ once = <<>>
    /\ twice = <<>>
    /\ npc = "conc"
    /\ sessions = NoSessions

NextConc ==
    \/ \E s \in Sessions : \E tab \in ConcTabs : \E m \in {Unset, Gemini, OpenAI} :
           ConcStart(s, tab, m)
    \/ \E s \in Sessions : ConcEnter(s)
    \/ \E s \in Sessions : \E b \in ConcBehaviours : ConcRequest(s, b)

SpecConc == InitConc /\ [][NextConc]_vars

(***************************************************************************)
(* The normalisers as functions of an arbitrary string                     *)
(***************************************************************************)
Alphabet == {"*", "#", "-", "=", " ", NL, "a"}

Strings(n) == UNION {[1..k -> Alphabet] : k \in 0..n}

InitNorm ==
    /\ GEMINI_API_KEY = NoKey
    /\ OPENAI_API_KEY = NoKey
    /\ openai_lib = "installed"
    /\ genai_api_key = NoKey
    /\ session_state = [model_choice |-> Unset, generated_content |-> NoText]
    /\ page = MainPage
    /\ run = InitRun
    /\ generations = 0
    /\ previous_content = NoText
    /\ bias_source = None
    /\ form_values = NoFormValues
    /\ previous_choice = Unset
    /\ text \in Strings(MaxLen)
    /\ normalizer \in Normalizers
    /\ once = <<>>
    /\ twice = <<>>
    /\ npc = "raw"
    /\ sessions = NoSessions

NormalizeOnce ==
    /\ npc = "raw"
    /\ once' = Normalize(normalizer, text)
    /\ npc' = "once"
    /\ UNCHANGED <<text, normalizer, twice>>
    /\ UNCHANGED envVars
    /\ UNCHANGED sessionVars
    /\ UNCHANGED concVars

NormalizeTwice ==
    /\ npc = "once"
    /\ twice' = Normalize(normalizer, once)
    /\ npc' = "twice"
    /\ UNCHANGED <<text, normalizer, once>>
    /\ UNCHANGED envVars
    /\ UNCHANGED sessionVars
    /\ UNCHANGED concVars

NextNorm == NormalizeOnce \/ NormalizeTwice

SpecNorm == InitNorm /\ [][NextNorm]_vars

TypeOK ==
    /\ GEMINI_API_KEY \in GeminiKeys
    /\ OPENAI_API_KEY \in OpenAIKeys
    /\ session_state.model_choice \in {Unset, Gemini, OpenAI}
    /\ DOMAIN session_state.generated_content \subseteq Tags
    /\ page \in Pages


(***************************************************************************)
(* Properties of a user-triggered generation                               *)
(***************************************************************************)
CredentialOf(m) == IF m = Gemini THEN GEMINI_API_KEY ELSE OPENAI_API_KEY

\* a provider is selected in the session and its credential is missing
SelectedWithoutCredential ==
    /\ session_state.model_choice \in {Gemini, OpenAI}
    /\ CredentialOf(session_state.model_choice) = NoKey

MissingCredentialMessages == {MsgNoGeminiKey, MsgNoOpenAIKey, MsgNoValidModel}

\* the outcome of a run that a "Generate" click started
Outcome(r) ==
    IF r.raised THEN "raised"
    ELSE IF ~r.called THEN "empty_input"
    ELSE IF r.stored THEN "success"
    ELSE IF \E m \in MissingCredentialMessages : InSeq(m, r.errors)
         THEN "no_provider_configured"
    ELSE IF r.errors # <<>> THEN "provider_error"
    ELSE "none"

HasMarkdown(s) == \E i \in 1..Len(s) : s[i] \in {"#", "*"}

\* a required field is empty (in a custom tab: the request is blank)
SomeFieldEmpty(r) ==
    \/ \E i \in 1..Len(r.fields) : r.fields[i] = <<>>
    \/ r.tab.check = "strip" /\ Strip(r.fields[1]) = <<>>

\* every required field is empty or whitespace
AllFieldsBlank(r) == \A i \in 1..Len(r.fields) : Strip(r.fields[i]) = <<>>

\* C1: when the provider selected in the session has no credential, a call
\* of generate returns None, issues no request to a provider client, and
\* nothing is stored in the result slot.
C1_NoCredentialReturnsFailure ==
    (run.called /\ SelectedWithoutCredential) =>
        /\ ~run.raised
        /\ run.returned = None
        /\ run.requests = <<>>
        /\ ~run.stored

\* C2: when the provider client raises during the request, generate does
\* not raise to its caller, returns None, shows the message of the
\* exception, and the result slot is not written.
C2_ProviderExceptionIsCaught ==
    (run.called /\ run.requests # <<>> /\ run.behaviour.kind \in {"raise", "reject_key"}) =>
        /\ ~run.raised
        /\ run.returned = None
        /\ \E i \in 1..Len(run.errors) : run.errors[i].msg = MsgGenerationError("").msg
        /\ run.behaviour.kind = "raise" =>
               InSeq(MsgGenerationError(run.behaviour.msg), run.errors)
        /\ ~run.stored

C2_Witness ==
    /\ run.called
    /\ run.requests # <<>>
    /\ run.behaviour.kind = "raise"
    /\ run.errors = <<MsgGenerationError("Request timed out.")>>

\* C3: a call of generate never raises: in every module, for every
\* selected provider, credential and behaviour of the client library, it
\* returns a value to the handler.
C3_GenerateNeverRaises == run.called => ~run.raised

C5_BlankFormIsEmptyInput ==
    (run.event = "generate" /\ AllFieldsBlank(run)) =>
        (Outcome(run) = "empty_input" /\ run.requests = <<>>)

\* C6: whenever a result is stored and shown as a success, the text shown
\* and offered for download is not empty.
C6_SuccessHasText ==
    run.stored =>
        /\ Truthy(run.displayed[run.tab.tag])
        /\ Truthy(run.downloaded[run.tab.tag])

\* C7: a generation that does not end in a success shows a reason to the
\* user, also when the provider returns an empty text without raising.
C7_FailureShowsReason ==
    (run.event = "generate" /\ ~run.stored /\ ~run.raised) => run.errors # <<>>

Stripped(s) == s = <<>> \/ (s[1] \notin Whitespace /\ s[Len(s)] \notin Whitespace)

\* C9: normalisation is idempotent: clean_text and clean_markdown_text
\* applied twice give the string that one application gives.
C9_NormalizeIdempotent == npc = "twice" => twice = once

C9_Witness ==
    /\ npc = "twice"
    /\ normalizer = "clean_markdown_text"
    /\ text = <<"*", " ", "a", NL, "#">>
    /\ once = <<"a">>

\* C10 (as stated): in every module that normalises, the normalised text
\* has no leading or trailing whitespace and no three newlines in a row.
C10_TrimmedAndCollapsed ==
    npc # "raw" => (Stripped(once) /\ ~Contains(once, <<NL, NL, NL>>))

\* C10 (amended): the normalised text has no leading or trailing whitespace
\* in every module that normalises; it has no three newlines in a row in
\* module 03 (clean_markdown_text), while clean_text of modules 04 to 09
\* only trims: it returns "a\n\n\na" as it is.
C10_TrimmedCollapsedIn03 ==
    npc # "raw" =>
        /\ Stripped(once)
        /\ normalizer = "clean_markdown_text" => ~Contains(once, <<NL, NL, NL>>)
        /\ (normalizer = "clean_text" /\ text = <<"a", NL, NL, NL, "a">>)
              => once = text

C10_Witness ==
    /\ npc = "once"
    /\ normalizer = "clean_markdown_text"
    /\ text = <<"a", NL, NL, NL, "a">>
    /\ once = <<"a", NL, NL, "a">>

(***************************************************************************)
(* Properties of the requests that generate issues                         *)
(***************************************************************************)
\* a provider is selected in the session and its credential is configured
SelectedWithCredential ==
    /\ session_state.model_choice \in {Gemini, OpenAI}
    /\ CredentialOf(session_state.model_choice) # NoKey

\* the client library of provider m can be imported
ClientImportable(m) == m = Gemini \/ openai_lib = "installed"

\* C11 (as stated): a call of generate issues at most one request, and
\* exactly one whenever the selected provider has a credential.
C11_ExactlyOneRequest ==
    run.called =>
        /\ Len(run.requests) <= 1
        /\ SelectedWithCredential => Len(run.requests) = 1

\* C11 (amended): a call of generate issues at most one request, whether it
\* succeeds or fails; exactly one when the selected provider has a
\* credential and its client library can be imported, and none when the
\* credential is missing or the import of the OpenAI client fails.
C11_AtMostOneRequest ==
    run.called =>
        /\ Len(run.requests) <= 1
        /\ (SelectedWithCredential /\ ClientImportable(session_state.model_choice))
              => Len(run.requests) = 1
        /\ (SelectedWithoutCredential
               \/ (session_state.model_choice = OpenAI /\ ~ClientImportable(OpenAI)))
              => run.requests = <<>>

C11_Witness ==
    /\ run.called
    /\ SelectedWithCredential
    /\ run.behaviour.kind = "raise"
    /\ Len(run.requests) = 1
    /\ run.requests[1].provider = Gemini

FourOutcomes == {"success", "provider_error", "no_provider_configured", "empty_input"}

\* C12: every generation that a click starts ends in exactly one of the four
\* outcomes success, provider_error, no_provider_configured, empty_input,
\* whenever the provider client returns or raises.
C12_ReachesOneOutcome ==
    run.event = "generate" => Outcome(run) \in FourOutcomes

\* the provider selected in the session; Gemini, the first option of the
\* selector, when no choice has been stored
SelectedProvider ==
    IF session_state.model_choice = Unset THEN Gemini ELSE session_state.model_choice

\* C13: every request that generate issues goes to the client of the
\* provider selected in the session, never to the client of the other
\* provider, in every module, also when no choice has been stored yet.
C13_RequestToSelectedProvider ==
    \A i \in 1..Len(run.requests) : run.requests[i].provider = SelectedProvider

C13_Witness ==
    /\ page = "09"
    /\ session_state.model_choice = OpenAI
    /\ GEMINI_API_KEY # NoKey
    /\ Len(run.requests) = 1
    /\ run.requests[1].provider = OpenAI

\* C14: the text sent with every request is the static system preamble of
\* the module followed by the instruction body, for both providers.
C14_PreambleSent ==
    \A i \in 1..Len(run.requests) :
        /\ Head(run.requests[i].input) = "system_prompt"
        /\ run.requests[i].input[Len(run.requests[i].input)] = "prompt"

(***************************************************************************)
(* Properties of the provider selectors                                    *)
(***************************************************************************)
Configured == {m \in {Gemini, OpenAI} : CredentialOf(m) # NoKey}

\* C15: on every page with a provider selector the options offered are
\* exactly the providers with a credential, and a pick in a selector never
\* stores a provider without a credential.
C15_OnlyConfiguredSelectable ==
    /\ (page \in {HomePage} \cup SelectorPages /\ run.event # "init")
          => SelectorOptions(page) = Configured
    /\ run.event = "select" => session_state.model_choice \in Configured

(***************************************************************************)
(* Frame of generate                                                       *)
(***************************************************************************)
\* pages whose script touches the genai configuration only inside generate
ConfiguresInGenerate == SelectorPages \cup {"08"}

\* C16: a call of generate leaves the process-global state as it found it:
\* the key that the genai library holds is the same after a run that called
\* generate as before it (on the pages whose script configures genai
\* nowhere else).
C16_GenerateIsPure ==
    [][(run'.event = "generate" /\ run'.called /\ page' \in ConfiguresInGenerate)
          => genai_api_key' = genai_api_key]_vars

C18_StaysUntilOverwritten ==
    \A t \in DOMAIN previous_content :
        /\ t \in DOMAIN session_state.generated_content
        /\ \/ session_state.generated_content[t] = previous_content[t]
           \/ run.stored /\ run.tab.tag = t

\* C18 (amended): a stored result stays under its tag, unchanged, through
\* every later action and navigation, until a successful generation for the
\* same tag overwrites it or the "Clear Form" button of its custom tab
\* deletes it; nothing else removes or alters it.
C18_StaysUntilOverwrittenOrCleared ==
    \A t \in DOMAIN previous_content :
        \/ /\ t \in DOMAIN session_state.generated_content
           /\ session_state.generated_content[t] = previous_content[t]
        \/ /\ run.stored /\ run.tab.tag = t
           /\ session_state.generated_content[t] = run.returned.text
        \/ /\ run.event = "clear" /\ run.tab \in CustomTabs /\ run.tab.tag = t
           /\ t \notin DOMAIN session_state.generated_content

C18_Witness ==
    /\ run.event = "clear"
    /\ "custom" \in DOMAIN previous_content
    /\ "idp" \in DOMAIN previous_content
    /\ DOMAIN session_state.generated_content = {"idp"}
    /\ session_state.generated_content["idp"] = previous_content["idp"]

\* what the display section of tab t finds in generated_content
TabSlot(t, slots) == IF t.tag \in DOMAIN slots THEN Some(slots[t.tag]) ELSE None

\* C19: a generation in one tab changes the slot of that tab only: what
\* every other tab, of the same or of another module, reads from the
\* session is the same after the generation as before.
C19_TabsHaveOwnSlots ==
    run.event = "generate" =>
        \A t \in Tabs \ {run.tab} :
            TabSlot(t, session_state.generated_content) = TabSlot(t, previous_content)

(***************************************************************************)
(* Properties of concurrent sessions                                       *)
(***************************************************************************)
\* the key genai holds when the script of page p runs alone in a fresh
\* process and reaches generate
AloneConf(p) ==
    IF p \in {"07", "09"} /\ GEMINI_API_KEY # NoKey THEN GEMINI_API_KEY ELSE NoKey

\* a request without the credential it carries
Unkeyed(reqs) == [i \in 1..Len(reqs) |-> [provider |-> reqs[i].provider, input |-> reqs[i].input]]

\* C20: under every interleaving of the script runs of concurrent sessions,
\* a finished generation has the outcome, the provider, the credential and
\* the slot content that the same click gives when its session runs alone.
C20_SessionsIndependent ==
    \A s \in Sessions :
        sessions[s].pc = "done" =>
            LET c == sessions[s]
                alone == IF c.tab.page = "08" /\ openai_lib = "absent"
                         THEN GenResult(None, <<>>, <<>>, TRUE, NoKey)
                         ELSE generate(c.tab.page, c.model_choice,
                                       AloneConf(c.tab.page), c.behaviour)
            IN  /\ c.returned = alone.ret
                /\ c.errors = alone.errors
                /\ c.raised = alone.raised
                /\ Unkeyed(c.requests) = Unkeyed(alone.requests)
                /\ \A i \in 1..Len(c.requests) :
                       c.requests[i].api_key =
                           IF c.requests[i].provider = Gemini THEN ConfigureKey(s)
                           ELSE OPENAI_API_KEY
                /\ c.generated_content =
                       IF ~alone.raised /\ TruthyOpt(alone.ret)
                       THEN Store(NoText, c.tab.tag, alone.ret.text) ELSE NoText

C20_Witness ==
    /\ sessions[1].pc = "done"
    /\ sessions[2].pc = "done"
    /\ sessions[1].tab.page = "01"
    /\ sessions[2].tab.page = "07"
    /\ Len(sessions[1].requests) = 1
    /\ Len(sessions[2].requests) = 1
    /\ sessions[1].requests[1].provider = Gemini
    /\ sessions[2].requests[1].provider = Gemini
    /\ sessions[1].generated_content # NoText
    /\ sessions[2].behaviour.kind = "raise"

(***************************************************************************)
(* Properties of the messages shown                                        *)
(***************************************************************************)
\* the credentials of the deployment
Credentials == {GEMINI_API_KEY, OPENAI_API_KEY} \ {NoKey}

\* C21: no error message shown after a failed request includes the value
\* of a credential, whatever exception the provider client raised.
C21_NoCredentialInMessage ==
    \A i \in 1..Len(run.errors) :
        \A k \in Credentials : run.errors[i].detail # Quoting(k)

(***************************************************************************)
(* Properties of the model choice                                          *)
(***************************************************************************)
Available(m) == InSeq(m, available_models)

\* C22: after a run of a page with a model selector (01 to 06) in a
\* deployment with at least one credential, the stored model choice is an
\* available provider whatever it was before the run, and a choice that
\* was available before the run is kept unless the user picked another.
C22_ChoiceIsAvailable ==
    (/\ npc \in SessionModes
     /\ page \in SelectorPages
     /\ available_models # <<>>)
    => /\ Available(session_state.model_choice)
       /\ (Available(previous_choice) /\ run.event # "select")
            => session_state.model_choice = previous_choice

\* a module page has replaced the choice of a provider without credential,
\* made on the home page, by the available provider
C22_Witness ==
    /\ npc \in SessionModes
    /\ page \in SelectorPages
    /\ available_models # <<>>
    /\ previous_choice = OpenAI
    /\ ~Available(previous_choice)
    /\ session_state.model_choice = Gemini

(***************************************************************************)
(* Failed generations and the result slots                                 *)
(***************************************************************************)
\* the last run called generate and stored nothing
GenerationFailed == run.event = "generate" /\ run.called /\ ~run.stored

\* C23: a generation that fails leaves every result slot as it was, and
\* the earlier result under the tag of the tab is still stored and still
\* displayed.
C23_FailureKeepsResults ==
    GenerationFailed =>
        /\ session_state.generated_content = previous_content
        /\ run.tab.tag \in DOMAIN previous_content =>
               /\ run.tab.tag \in DOMAIN run.displayed
               /\ run.displayed[run.tab.tag] = Shown(page, previous_content[run.tab.tag])

(***************************************************************************)
(* The provider of the sidebar status and the provider of the request      *)
(***************************************************************************)
\* the providers whose credential status the sidebar of the last run reports
ReportedProviders ==
    {m \in {Gemini, OpenAI} :
        \E i \in 1..Len(run.notices) :
            \/ m = Gemini /\ run.notices[i] \in {MsgGeminiKeyLoaded, MsgGeminiKeyMissing}
            \/ m = OpenAI /\ run.notices[i] \in {MsgOpenAIKeyLoaded, MsgOpenAIKeyMissing}}

\* the providers generate dispatched to in the last run, as its requests
\* and its missing-credential messages show
DispatchedProviders ==
    {run.requests[i].provider : i \in 1..Len(run.requests)}
    \cup {m \in {Gemini, OpenAI} :
            \/ m = Gemini /\ InSeq(MsgNoGeminiKey, run.errors)
            \/ m = OpenAI /\ InSeq(MsgNoOpenAIKey, run.errors)}

\* C24: on pages 07, 08 and 09 the provider whose credential status the
\* sidebar reports is the provider generate dispatches to in the same
\* run, for every stored model choice including none.
C24_StatusOfDispatchedProvider ==
    (npc \in SessionModes /\ page \in {"07", "08", "09"} /\ run.called)
    => DispatchedProviders \subseteq ReportedProviders

(***************************************************************************)
(* Rendering the forms                                                     *)
(***************************************************************************)
\* C25: after any sequence of actions, including loading sample data on
\* the page of another module, rendering a module page never raises: a
\* stored form value that pre-selects a select-box option is one of the
\* options or is replaced by a default.
C25_RenderNeverRaises ==
    (npc = "form" /\ page \in ModulePages) => ~run.raised

(***************************************************************************)
(* The bias analysis of module 03                                          *)
(***************************************************************************)
\* C26: whenever a bias analysis is stored and displayed, it was computed
\* from the job description that is stored now.
C26_BiasOfStoredDescription ==
    (/\ npc = "ta"
     /\ page = "03"
     /\ "bias_analysis" \in DOMAIN session_state.generated_content
     /\ "bias_analysis" \in DOMAIN run.displayed)
    => /\ "job_description" \in DOMAIN session_state.generated_content
       /\ bias_source = Some(session_state.generated_content["job_description"])

(***************************************************************************)
(* The photos of the incident report                                       *)
(***************************************************************************)
\* C27: in the incident-report tab, whenever the prompt of a request tells
\* the provider to analyze the provided images, the uploaded images are
\* part of that request, whichever provider is selected.
C27_HintedImagesAreSent ==
    (npc = "form" /\ run.tab = IncidentTab)
    => \A i \in 1..Len(run.requests) :
           Contains(run.requests[i].input, <<ImageHint>>)
           => /\ run.photos # <<>>
              /\ Contains(run.requests[i].input, run.photos)

(***************************************************************************)
(* "Clear Form" of a custom tab                                            *)
(***************************************************************************)
\* a step that is a click on "Clear Form"
ClearStep == npc = "form" /\ run'.event = "clear"

\* C28: "Clear Form" in a custom tab sets the stored custom prompt of the
\* tab to the empty string and removes the custom slot of the tab if there
\* is one (and succeeds if there is none); every other slot, the model
\* choice and every other form value stay as they were; a second click
\* changes nothing.
C28_ClearFormFrame ==
    [][ClearStep =>
        /\ ~run'.raised
        /\ form_values'.custom_prompt = Some(<<>>)
        /\ run'.tab.tag \notin DOMAIN session_state'.generated_content
        /\ \A t \in DOMAIN session_state.generated_content \ {run'.tab.tag} :
               /\ t \in DOMAIN session_state'.generated_content
               /\ session_state'.generated_content[t] = session_state.generated_content[t]
        /\ DOMAIN session_state'.generated_content
               \subseteq DOMAIN session_state.generated_content
        /\ session_state'.model_choice = session_state.model_choice
        /\ form_values'.job_level = form_values.job_level
        /\ (run.event = "clear" /\ run.tab = run'.tab) =>
               /\ session_state' = session_state
               /\ form_values' = form_values]_vars

\* "Clear Form" has emptied a stored prompt and removed the custom slot
\* while another slot, a stored job level and a model choice were there
C28_Witness ==
    /\ npc = "form"
    /\ run.event = "clear"
    /\ "custom" \in DOMAIN previous_content
    /\ "custom" \notin DOMAIN session_state.generated_content
    /\ "idp" \in DOMAIN session_state.generated_content
    /\ form_values.custom_prompt = Some(<<>>)
    /\ form_values.job_level # Unset
    /\ session_state.model_choice # Unset

(***************************************************************************)
(* The offer letter of module 03                                           *)
(***************************************************************************)
\* C29: "Generate Offer Document" never raises for a candidate name and a
\* position that pass the required-field check, a name of whitespace only
\* included.
C29_OfferNeverRaises ==
    (/\ npc = "ta"
     /\ run.event = "generate"
     /\ run.tab = OfferTab
     /\ Truthy(run.fields[1])
     /\ Truthy(run.fields[2]))
    => ~run.raised

====
